---- MODULE Spec2Model ----
(***************************************************************************)
(* Model of the forecasting pipeline of saimersaavedra/forecasting-api:    *)
(*   src/predictor.py                 the stability guard and the          *)
(*                                    fallback-aware predictors            *)
(*   src/main.py (lines 82-103)       predict_next_weeks, the plain        *)
(*                                    predictor the category batch uses    *)
(*   src/data_utils.py                the upstream fetchers                *)
(*   src/scripts/generate_forecasts.py the two regeneration batches and    *)
(*                                    the snapshot files they write        *)
(*                                                                         *)
(* Numbers.  Sales values are integers.  A threshold is kept in tenths     *)
(* (15 is 1.5) and a noise factor in thousandths (900 is 0.9).  A value    *)
(* under log1p is kept as the record [log1p |-> v]: the code reads such a  *)
(* value back in three different ways (y > 0, expm1 of a mean of logs,     *)
(* expm1(...).astype(int)), each modelled by what it computes.  A date is  *)
(* a day number; day d is a Sunday iff d % 7 = 0.                          *)
(***************************************************************************)
EXTENDS Integers, Sequences, FiniteSets, TLC

VARIABLES
    arg,       \* the arguments of the call under way (pure-function specifications)
    ret,       \* <<>> until the call returns, then <<what it returned>>
    pc,        \* per run of the script: where it stands
    job,       \* per run: the batch it executes ("category", "product")
    todo,      \* per run: the entities the loop has still to visit
    results,   \* per run: the list `results` of the batch
    fetched,   \* per run: what each fetch returned, in order; the first is the fetch of
               \* the list or table (what = 0), the others of product `what`
    fitted,    \* per run: the series the statistical model was fitted on, and whether
               \* the forecast went through the guard
    pos,       \* per run: how many chunks of `results` json.dump has written
    file       \* per entity type: the content of the snapshot file

vars == <<arg, ret, pc, job, todo, results, fetched, fitted, pos, file>>

(***************************************************************************)
(* Bounds of the model.                                                    *)
(***************************************************************************)
MaxLen == 6          \* longest series handed to a predictor
MaxVal == 2          \* largest weekly sales value of such a series
MaxWeeks == 2        \* largest horizon of a direct predictor call
MaxProducts == 2     \* most products the source lists
GuardLen == 4        \* longest history handed to the guard alone
GuardFore == 3       \* longest forecast handed to the guard alone
GuardVal == 2        \* largest value in the guard's inputs
NoiseLen == 2        \* longest array handed to add_noise alone
NoiseVal == 10       \* largest value in such an array
FactorSteps == 2     \* factors drawn on each side of 1.0, evenly spaced up to 1 +- pct
RecVal == 10         \* the weekly sales of a product in a good week

(***************************************************************************)
(* Program constants.                                                      *)
(***************************************************************************)
WEEKS == 4                   \* horizon of both batches
MIN_NON_ZERO == 6            \* `non_zero_count < 6`
TRAILING == 3                \* `history[-3:]`, `len(history) < 3`
UMBRAL_DEFAULT == 15         \* umbral = 1.5, in tenths
NOISE_PCT == 100             \* pct = 0.1, in thousandths
DAYS_PER_WEEK == 7           \* pd.Timedelta(weeks=1), freq='W'

(***************************************************************************)
(* Arithmetic helpers.                                                     *)
(***************************************************************************)
RECURSIVE SeqSum(_)
SeqSum(s) == IF s = <<>> THEN 0 ELSE Head(s) + SeqSum(Tail(s))

RECURSIVE Pow(_, _)
Pow(b, e) == IF e = 0 THEN 1 ELSE b * Pow(b, e - 1)

RECURSIVE SeqProdPlus1(_)
SeqProdPlus1(s) == IF s = <<>> THEN 1 ELSE (1 + Head(s)) * SeqProdPlus1(Tail(s))

RECURSIVE SeqMax(_)
SeqMax(s) == IF s = <<>> THEN 0
             ELSE LET m == SeqMax(Tail(s)) IN IF Head(s) > m THEN Head(s) ELSE m

RECURSIVE Gcd(_, _)
Gcd(a, b) == IF b = 0 THEN a ELSE Gcd(b, a % b)

IsPow2(n) == \E k \in 0..12 : n = Pow(2, k)

\* All sequences over S of length lo..hi.
SeqsOf(S, lo, hi) == UNION { [1..n -> S] : n \in lo..hi }

\* The last k elements of s (all of s when it is shorter): s[-k:].
LastK(s, k) == IF Len(s) <= k THEN s ELSE SubSeq(s, Len(s) - k + 1, Len(s))

\* round() of Python and of numpy on the rational n/d, d > 0: to nearest, ties to even.
RoundHalfEven(n, d) ==
    LET q == n \div d
        r == n % d
    IN  IF 2 * r < d THEN q
        ELSE IF 2 * r > d THEN q + 1
        ELSE IF q % 2 = 0 THEN q ELSE q + 1

(***************************************************************************)
(* The stability guard, src/predictor.py:31-39.                            *)
(*                                                                         *)
(* avg_hist and avg_fore are IEEE doubles (np.mean), and so is the product *)
(* avg_hist * umbral.  With lhs = sum(forecast)/n and                      *)
(* rhs = (sum(history[-3:])/3) * umbral as exact rationals: when they      *)
(* differ they differ by far more than a rounding error, and the doubles   *)
(* compare as the rationals do.  When they are equal, the doubles are      *)
(* equal if the threshold is a power of two (the product is then exact up  *)
(* to the one rounding of the mean) or if the threshold and the common     *)
(* value are both binary fractions (every step is then exact); otherwise   *)
(* the two sides are rounded differently and either may come out larger:   *)
(* both outcomes are kept.  The operator gives the set of values the call  *)
(* can return.                                                             *)
(***************************************************************************)
UmbralIsBinary(umbral) == IsPow2(10 \div Gcd(umbral, 10))

UmbralIsPowerOfTwo(umbral) ==
    \E k \in 0..6 : umbral = 10 * Pow(2, k) \/ umbral * Pow(2, k) = 10

IsBinaryFraction(n, d) == IsPow2(d \div Gcd(n, d))

\* the guard with `history` where the code has `history[-3:]`
es_forecast_inestable_whole_history(history, forecast, umbral) ==
    IF Len(history) < TRAILING \/ Len(forecast) = 0
    THEN {FALSE}
    ELSE IF SeqSum(history) > 0
            /\ SeqSum(forecast) * Len(history) * 10 > SeqSum(history) * umbral * Len(forecast)
         THEN {TRUE}
         ELSE {FALSE}

es_forecast_inestable(history, forecast, umbral) ==
    IF Len(history) < TRAILING \/ Len(forecast) = 0
    THEN {FALSE}
    ELSE LET sumHist == SeqSum(LastK(history, TRAILING))
             sumFore == SeqSum(forecast)
             n       == Len(forecast)
             \* avg_fore > avg_hist * umbral, both sides times 3 * 10 * n
             lhs     == sumFore * TRAILING * 10
             rhs     == sumHist * umbral * n
         IN  IF ~(sumHist > 0) THEN {FALSE}
             ELSE IF lhs > rhs THEN {TRUE}
             ELSE IF lhs < rhs THEN {FALSE}
             ELSE IF UmbralIsPowerOfTwo(umbral)
                     \/ (UmbralIsBinary(umbral) /\ IsBinaryFraction(sumFore, n))
                  THEN {FALSE}
                  ELSE {TRUE, FALSE}

(***************************************************************************)
(* Series preparation, src/predictor.py:7-29.  A raw category table has    *)
(* rows [date, cats] (cats maps a category to its value); a raw product    *)
(* series has rows [date, value]; a prepared series has rows [ds, y].      *)
(***************************************************************************)
Clip0(v) == IF v < 0 THEN 0 ELSE v

Log1p(v) == [log1p |-> v]

prepare_category_df(df, category) ==
    [i \in 1..Len(df) |-> [ds |-> df[i].date, y |-> Log1p(Clip0(df[i].cats[category]))]]

prepare_product_df(df) ==
    [i \in 1..Len(df) |-> [ds |-> df[i].date, y |-> Log1p(Clip0(df[i].value))]]

(***************************************************************************)
(* Reading a transformed value back.                                       *)
(***************************************************************************)
\* (df['y'] > 0): log1p(v) > 0 iff v > 0.
YPositive(y) == y.log1p > 0

\* The original values under the transform, as a sequence.
Originals(df_y) == [i \in 1..Len(df_y) |-> df_y[i].y.log1p]

\* int(round(np.expm1(df['y'].mean()))): expm1 of the mean of the logs is
\* G - 1 with G the geometric mean of the values 1 + v.  G - 1 is never a
\* half-integer, so the rounding is the k with k - 1/2 < G - 1 < k + 1/2, that is
\* (2k+1)^n <= 2^n * prod(1 + v) < (2k+3)^n.
ExpM1OfMeanRounded(df_y) ==
    LET vals == Originals(df_y)
        n    == Len(vals)
        p    == Pow(2, n) * SeqProdPlus1(vals)
    IN  CHOOSE k \in 0..SeqMax(vals) :
            Pow(2 * k + 1, n) <= p /\ p < Pow(2 * k + 3, n)

\* np.expm1(df['y'].values).astype(int): expm1(log1p(v)) is a double next to v, and
\* astype(int) truncates, so a value v >= 2 reads back as v or as v - 1, as the
\* rounding of the two calls falls (with glibc 2 reads back as 1, 3 as 3, 4 as 3,
\* 7 as 6); 0 and 1 read back as themselves.  Only the last three elements of
\* hist_vals are ever read (history[-3:]), so the set ranges over the readings of
\* those.
HistValsReadings(df_y) ==
    LET vals == Originals(df_y)
        n    == Len(vals)
        tail == { i \in 1..n : i > n - TRAILING }
    IN  { [i \in 1..n |-> IF i \in low /\ vals[i] >= 2 THEN vals[i] - 1 ELSE vals[i]]
          : low \in SUBSET tail }

(***************************************************************************)
(* Dates.                                                                  *)
(***************************************************************************)
\* df['ds'].max(): the fetchers sort by date, so it is the last row's.
MaxDs(df_y) == df_y[Len(df_y)].ds

\* The first Sunday on or after day d (freq='W' is W-SUN).
SundayOnOrAfter(d) == d + ((DAYS_PER_WEEK - (d % DAYS_PER_WEEK)) % DAYS_PER_WEEK)

\* pd.date_range(start, periods, freq='W')
date_range(start, periods) ==
    [i \in 1..periods |-> SundayOnOrAfter(start) + DAYS_PER_WEEK * (i - 1)]

\* Prophet.make_future_dataframe(periods, freq='W'), then .tail(periods) of the
\* prediction: date_range(last, periods + 1), only the dates after last, the first
\* `periods` of them.
future_dates(df_y, periods) ==
    LET last == MaxDs(df_y)
        all  == date_range(last, periods + 1)
    IN  IF all[1] > last THEN SubSeq(all, 1, periods) ELSE SubSeq(all, 2, periods + 1)

(***************************************************************************)
(* Noise, src/predictor.py:63-71 and 147-151.  factors[i] is the factor    *)
(* drawn for element i, in thousandths.                                    *)
(***************************************************************************)
\* add_noise without the .round(): astype(int) alone truncates
add_noise_truncating(array, factors) ==
    [i \in 1..Len(array) |-> Clip0((array[i] * factors[i]) \div 1000)]

add_noise(array, factors) ==
    [i \in 1..Len(array) |-> Clip0(RoundHalfEven(array[i] * factors[i], 1000))]

NoiseFactors == {1000 - NOISE_PCT, 1000, 1000 + NOISE_PCT}

Replicate(v, n) == [i \in 1..n |-> v]

(***************************************************************************)
(* The fallback-aware predictor, src/predictor.py:127-201.  The set of     *)
(* results a call can produce, given                                       *)
(*   model  what the statistical model can do on this series: .fails says  *)
(*          whether fit/predict may raise, .yhats is the set of forecasts  *)
(*          (already expm1'd, clipped and rounded) it may give;            *)
(*   rng    the factor sequences np.random.uniform may draw.               *)
(* A result is [status, path, ds, yhat].                                   *)
(***************************************************************************)
Raised(why) == [status |-> "error", path |-> why, ds |-> <<>>, yhat |-> <<>>]

Returned(how, ds, yhat) == [status |-> "ok", path |-> how, ds |-> ds, yhat |-> yhat]

predict_product_sales(df_prod, weeks, umbral_inestabilidad, model, rng) ==
    LET non_zero_count == Cardinality({ i \in 1..Len(df_prod) : YPositive(df_prod[i].y) })
    IN  IF Len(df_prod) = 0
        THEN { Raised("empty") }      \* the mean is NaN and int(round(nan)) raises
        ELSE IF non_zero_count < MIN_NON_ZERO
        THEN LET base_val == ExpM1OfMeanRounded(df_prod)
                 fechas   == date_range(MaxDs(df_prod) + DAYS_PER_WEEK, weeks)
             IN  { Returned("sparse", fechas, add_noise(Replicate(base_val, weeks), f))
                   : f \in rng }
        ELSE (IF model.fails THEN { Raised("fit") } ELSE {})
             \cup
             UNION { UNION { UNION {
                 IF unstable
                 THEN LET avg_last3 == RoundHalfEven(SeqSum(LastK(hist_vals, TRAILING)),
                                                     TRAILING)
                          fechas == date_range(MaxDs(df_prod) + DAYS_PER_WEEK, weeks)
                      IN  { Returned("unstable", fechas,
                                     add_noise(Replicate(avg_last3, weeks), f))
                            : f \in rng }
                 ELSE { Returned("model", future_dates(df_prod, weeks),
                                 add_noise(fore_vals, f))
                        : f \in rng }
                 : unstable \in es_forecast_inestable(hist_vals, fore_vals,
                                                      umbral_inestabilidad) }
               : hist_vals \in HistValsReadings(df_prod) }
             : fore_vals \in model.yhats }

\* src/predictor.py:41-125: the same steps on prepare_category_df(df, category).
predict_category_sales(df, category, weeks, umbral_inestabilidad, model, rng) ==
    LET df_cat == prepare_category_df(df, category)
        non_zero_count == Cardinality({ i \in 1..Len(df_cat) : YPositive(df_cat[i].y) })
    IN  IF Len(df_cat) = 0
        THEN { Raised("empty") }
        ELSE IF non_zero_count < MIN_NON_ZERO
        THEN LET fechas   == date_range(MaxDs(df_cat) + DAYS_PER_WEEK, weeks)
                 base_val == ExpM1OfMeanRounded(df_cat)
             IN  { Returned("sparse", fechas, add_noise(Replicate(base_val, weeks), f))
                   : f \in rng }
        ELSE (IF model.fails THEN { Raised("fit") } ELSE {})
             \cup
             UNION { UNION { UNION {
                 IF unstable
                 THEN LET avg_last3 == RoundHalfEven(SeqSum(LastK(hist_vals, TRAILING)),
                                                     TRAILING)
                          fechas == date_range(MaxDs(df_cat) + DAYS_PER_WEEK, weeks)
                      IN  { Returned("unstable", fechas,
                                     add_noise(Replicate(avg_last3, weeks), f))
                            : f \in rng }
                 ELSE { Returned("model", future_dates(df_cat, weeks),
                                 add_noise(fore_vals, f))
                        : f \in rng }
                 : unstable \in es_forecast_inestable(hist_vals, fore_vals,
                                                      umbral_inestabilidad) }
               : hist_vals \in HistValsReadings(df_cat) }
             : fore_vals \in model.yhats }


(***************************************************************************)
(* State of the parts a specification does not exercise.                   *)
(***************************************************************************)
NoScript ==
    /\ pc = <<>> /\ job = <<>> /\ todo = <<>> /\ results = <<>>
    /\ fetched = <<>> /\ fitted = <<>> /\ pos = <<>> /\ file = <<>>

scriptVars == <<pc, job, todo, results, fetched, fitted, pos, file>>

(***************************************************************************)
(* SpecGuard: every call of es_forecast_inestable within the bounds.       *)
(***************************************************************************)
GuardHistories == SeqsOf({0 - 1} \cup (0..GuardVal), 0, GuardLen)
GuardForecasts == SeqsOf(0..GuardVal, 0, GuardFore)
Umbrales == {10, UMBRAL_DEFAULT, 25}

InitGuard ==
    /\ arg \in [history : GuardHistories, forecast : GuardForecasts, umbral : Umbrales]
    /\ ret = <<>>
    /\ NoScript

CallGuard ==
    /\ ret = <<>>
    /\ \E r \in es_forecast_inestable(arg.history, arg.forecast, arg.umbral) :
           ret' = <<r>>
    /\ UNCHANGED <<arg, scriptVars>>

NextGuard == CallGuard

SpecGuard == InitGuard /\ [][NextGuard]_vars

\* The claim's own reading of the guard: means as exact rationals.
MeanNum(s) == SeqSum(s)
MeanDen(s) == Len(s)
\* a/b > (c/d) * (t/10), with b, d > 0
RatGreaterScaled(a, b, c, d, t) == a * d * 10 > c * t * b

GuardShouldFire(history, forecast, umbral) ==
    /\ Len(history) >= 3
    /\ Len(forecast) > 0
    /\ MeanNum(LastK(history, 3)) > 0
    /\ RatGreaterScaled(MeanNum(forecast), MeanDen(forecast),
                        MeanNum(LastK(history, 3)), 3, umbral)

\* C1: for every history, forecast and threshold the guard returns true if and
\* only if the history has at least 3 points, the forecast is non-empty, the mean
\* of the last 3 history values is > 0 and the mean of the forecast is strictly
\* greater than threshold times that mean.
C1_GuardIff ==
    ret # <<>> =>
        (ret[1] <=> GuardShouldFire(arg.history, arg.forecast, arg.umbral))

\* C1 restricted to the default threshold 1.5, where the double product is exact.
C1_GuardIffDefault ==
    (ret # <<>> /\ arg.umbral = UMBRAL_DEFAULT) =>
        (ret[1] <=> GuardShouldFire(arg.history, arg.forecast, arg.umbral))

(***************************************************************************)
(* SpecPredict: every direct call of the two predictors within the bounds. *)
(* The series is weekly and ends on any day of the week.                   *)
(***************************************************************************)
\* A Sunday late enough for the weeks of history before it.
FirstDay == (MaxLen + 4) * DAYS_PER_WEEK

WeeklyDates(n, last) == [i \in 1..n |-> last - DAYS_PER_WEEK * (n - i)]

ProductDf(vals, last) ==
    [i \in 1..Len(vals) |-> [date |-> WeeklyDates(Len(vals), last)[i], value |-> vals[i]]]

CategoryDf(vals, last, category) ==
    [i \in 1..Len(vals) |->
        [date |-> WeeklyDates(Len(vals), last)[i], cats |-> [c \in {category} |-> vals[i]]]]

\* What Prophet may answer for a horizon: a failure, or any forecast over FcValues.
FcValues == {0, MaxVal, 4 * MaxVal + 1}

AnyModel(weeks) == [fails |-> TRUE, yhats |-> SeqsOf(FcValues, weeks, weeks)]

AnyRng(weeks) == SeqsOf(NoiseFactors, weeks, weeks)

InitPredict ==
    /\ \E fn \in {"predict_category_sales", "predict_product_sales"},
          vals \in SeqsOf(0..MaxVal, 0, MaxLen),
          wd \in 0..(DAYS_PER_WEEK - 1),
          weeks \in 1..MaxWeeks :
            arg = [fn |-> fn, vals |-> vals, last |-> FirstDay + wd, weeks |-> weeks,
                   umbral |-> UMBRAL_DEFAULT]
    /\ ret = <<>>
    /\ NoScript

CallPredictCategorySales ==
    /\ ret = <<>>
    /\ arg.fn = "predict_category_sales"
    /\ \E r \in predict_category_sales(CategoryDf(arg.vals, arg.last, "c"), "c",
                                       arg.weeks, arg.umbral,
                                       AnyModel(arg.weeks), AnyRng(arg.weeks)) :
           ret' = <<r>>
    /\ UNCHANGED <<arg, scriptVars>>

CallPredictProductSales ==
    /\ ret = <<>>
    /\ arg.fn = "predict_product_sales"
    /\ \E r \in predict_product_sales(prepare_product_df(ProductDf(arg.vals, arg.last)),
                                      arg.weeks, arg.umbral,
                                      AnyModel(arg.weeks), AnyRng(arg.weeks)) :
           ret' = <<r>>
    /\ UNCHANGED <<arg, scriptVars>>

NextPredict == CallPredictCategorySales \/ CallPredictProductSales

SpecPredict == InitPredict /\ [][NextPredict]_vars

\* The number of values > 0 of a sequence, and the mean rounded to nearest.
NonZeroCount(vals) == Cardinality({ i \in 1..Len(vals) : vals[i] > 0 })

RoundedMean(vals) == RoundHalfEven(SeqSum(vals), Len(vals))

\* out is the rounding of some real within +-10% of base:
\* out - 1/2 <= 1.1 * base and out + 1/2 >= 0.9 * base.
WithinTenPercent(out, base) ==
    /\ 10 * out - 5 <= 11 * base
    /\ 10 * out + 5 >= 9 * base

\* C2: for every (non-empty) series with fewer than 6 values > 0 the predictors
\* skip the statistical model and return exactly `weeks` points, each within
\* +-10% (before rounding) of the rounded arithmetic mean of the original values.
C2_SparseIsArithmeticMean ==
    (ret # <<>> /\ Len(arg.vals) > 0 /\ NonZeroCount(arg.vals) < 6) =>
        /\ ret[1].status = "ok"
        /\ ret[1].path = "sparse"
        /\ Len(ret[1].yhat) = arg.weeks
        /\ \A i \in 1..Len(ret[1].yhat) :
               WithinTenPercent(ret[1].yhat[i], RoundedMean(arg.vals))

\* C3: whenever the guard judges the model forecast unstable, the forecast
\* produced is `weeks` points, each the rounded mean of the trailing 3
\* original-scale historical values with the +-10% noise applied.
C3_UnstableIsTrailingMean ==
    (ret # <<>> /\ ret[1].path = "unstable") =>
        /\ Len(ret[1].yhat) = arg.weeks
        /\ \A i \in 1..Len(ret[1].yhat) :
               WithinTenPercent(ret[1].yhat[i], RoundedMean(LastK(arg.vals, 3)))

\* C9: on every path the forecast has exactly `weeks` points, 7 days apart, the
\* first one week after the last historical date (so every path gives the same
\* dates for the same series).
C9_WeeklyDates ==
    (ret # <<>> /\ ret[1].status = "ok") =>
        /\ Len(ret[1].ds) = arg.weeks
        /\ Len(ret[1].yhat) = arg.weeks
        /\ ret[1].ds[1] = arg.last + 7
        /\ \A i \in 1..(Len(ret[1].ds) - 1) : ret[1].ds[i + 1] = ret[1].ds[i] + 7

\* What does hold of the dates: `weeks` Sundays, 7 days apart, after the last date.
C9_SundaysAfterLast ==
    (ret # <<>> /\ ret[1].status = "ok") =>
        /\ Len(ret[1].ds) = arg.weeks
        /\ \A i \in 1..Len(ret[1].ds) : ret[1].ds[i] % 7 = 0 /\ ret[1].ds[i] > arg.last
        /\ \A i \in 1..(Len(ret[1].ds) - 1) : ret[1].ds[i + 1] = ret[1].ds[i] + 7

(***************************************************************************)
(* The plain predictor, src/main.py:82-103: fit, predict, inverse          *)
(* transform; no sparse-data fallback, no guard, no noise.  Prophet.fit    *)
(* raises on a series of fewer than 2 rows.                                *)
(***************************************************************************)
predict_next_weeks(df, weeks, model) ==
    IF Len(df) < 2
    THEN { Raised("fit") }
    ELSE (IF model.fails THEN { Raised("fit") } ELSE {})
         \cup { Returned("model", future_dates(df, weeks), yhat) : yhat \in model.yhats }

(***************************************************************************)
(* The upstream fetchers, src/data_utils.py.  Each catches every exception *)
(* and answers with the empty value, so a fetch gives [failed, df]: the    *)
(* failure is only printed.                                                *)
(***************************************************************************)
\* get_and_clean_category_data, src/data_utils.py:13-39
get_and_clean_category_data(tables) ==
    { [failed |-> TRUE, df |-> <<>>] } \cup { [failed |-> FALSE, df |-> t] : t \in tables }

\* get_all_products, src/data_utils.py:67-76
get_all_products(lists) ==
    { [failed |-> TRUE, products |-> <<>>] }
    \cup { [failed |-> FALSE, products |-> l] : l \in lists }

\* get_and_clean_product_data, src/data_utils.py:42-64
get_and_clean_product_data(product_id, series) ==
    { [failed |-> TRUE, df |-> <<>>] } \cup { [failed |-> FALSE, df |-> d] : d \in series }

(***************************************************************************)
(* The snapshot files.  A file is [exists, cells]; a cell is one chunk     *)
(* json.dump hands to the file: a record of `results`, or the closing      *)
(* bracket.  open(path, "w") creates or truncates the file; each writer    *)
(* writes at its own offset; bytes past the end leave a hole.  The buffer  *)
(* is flushed when it fills and when the with-block closes the file, so    *)
(* any prefix of the chunks may be what the file holds at a given moment.  *)
(***************************************************************************)
RecCell(r) == [kind |-> "rec", body |-> <<r>>]

EndCell == [kind |-> "end", body |-> <<>>]

HoleCell == [kind |-> "hole", body |-> <<>>]

WriteAt(cells, p, x) ==
    IF p <= Len(cells)
    THEN [cells EXCEPT ![p] = x]
    ELSE cells \o [i \in 1..(p - Len(cells) - 1) |-> HoleCell] \o <<x>>

\* The file parses as a snapshot: records, then the closing bracket, nothing else.
IsSnapshot(f) ==
    /\ f.exists
    /\ Len(f.cells) >= 1
    /\ f.cells[Len(f.cells)].kind = "end"
    /\ \A i \in 1..(Len(f.cells) - 1) : f.cells[i].kind = "rec"

SnapshotOf(rs) == [exists |-> TRUE, cells |-> [i \in 1..Len(rs) |-> RecCell(rs[i])] \o <<EndCell>>]

Missing == [exists |-> FALSE, cells |-> <<>>]

Strftime(d) == [ymd |-> d]

Point(d, v) == [date |-> Strftime(d), value |-> v]

\* The snapshot an earlier regeneration left behind.
OldSnapshot(t) ==
    SnapshotOf(<<[entity |-> "earlier", type |-> t,
                  history |-> <<Point(FirstDay - DAYS_PER_WEEK, 1)>>,
                  forecasting |-> <<Point(FirstDay, 1)>>, weeks |-> WEEKS]>>)

EntityTypes == {"category", "product"}

(***************************************************************************)
(* The regeneration batches, src/scripts/generate_forecasts.py.  A run w   *)
(* is one execution of generate_category_forecasts or of                   *)
(* generate_product_forecasts.  cfg names what the run can meet upstream:  *)
(*   cfg.tables   the category tables the source may serve                 *)
(*   cfg.lists    the product lists it may serve                           *)
(*   cfg.series   the product series it may serve                          *)
(*   cfg.model    what the statistical model may do                        *)
(*   cfg.rng      the noise factors that may be drawn                      *)
(***************************************************************************)
CategoryOrder == <<"c1", "c2">>

Columns(df) ==
    IF df = <<>> THEN <<>>
    ELSE SelectSeq(CategoryOrder, LAMBDA c : c \in DOMAIN df[1].cats)

\* A batch that would put each new record in front of the earlier ones.
PrependResult(rs, r) == <<r>> \o rs

\* results.append({...}), lines 49-54 and 117-123
AppendResult(rs, r) == Append(rs, r)

\* lines 20-24
StartCategory(w, cfg) ==
    /\ pc[w] = "idle"
    /\ \E got \in get_and_clean_category_data(cfg.tables) :
         /\ todo' = [todo EXCEPT ![w] = [df |-> got.df, items |-> Columns(got.df), next |-> 1]]
         /\ fetched' = [fetched EXCEPT ![w] =
                           <<[what |-> 0, failed |-> got.failed, df |-> <<>>]>>]
    /\ job' = [job EXCEPT ![w] = "category"]
    /\ pc' = [pc EXCEPT ![w] = "loop"]
    /\ UNCHANGED <<arg, ret, results, fitted, pos, file>>

\* one turn of the loop, lines 26-54; an exception of the predictor leaves the
\* function (nothing catches it) and the run ends without writing
CategoryStep(w, cfg) ==
    /\ pc[w] = "loop" /\ job[w] = "category"
    /\ todo[w].next <= Len(todo[w].items)
    /\ LET df       == todo[w].df
           category == todo[w].items[todo[w].next]
           history  == [i \in 1..Len(df) |-> Point(df[i].date, df[i].cats[category])]
           df_cat   == prepare_category_df(df, category)
       IN  \E r \in predict_next_weeks(df_cat, WEEKS, cfg.model) :
             /\ fitted' = [fitted EXCEPT ![w] =
                   IF Len(df_cat) < 2
                   THEN @          \* fit refuses the series before fitting
                   ELSE Append(@, [entity |-> category, vals |-> Originals(df_cat),
                                   outcome |-> IF r.status = "error" THEN "raised"
                                               ELSE "unguarded"])]
             /\ IF r.status = "error"
                THEN /\ pc' = [pc EXCEPT ![w] = "raised"]
                     /\ UNCHANGED <<todo, results>>
                ELSE /\ results' = [results EXCEPT ![w] = AppendResult(@,
                           [entity |-> category, type |-> "category", history |-> history,
                            forecasting |-> [i \in 1..Len(r.ds) |-> Point(r.ds[i], r.yhat[i])],
                            weeks |-> WEEKS])]
                     /\ todo' = [todo EXCEPT ![w].next = @ + 1]
                     /\ pc' = pc
    /\ UNCHANGED <<arg, ret, job, fetched, pos, file>>

\* lines 65-68
StartProduct(w, cfg) ==
    /\ pc[w] = "idle"
    /\ \E got \in get_all_products(cfg.lists) :
         /\ todo' = [todo EXCEPT ![w] = [df |-> <<>>, items |-> got.products, next |-> 1]]
         /\ fetched' = [fetched EXCEPT ![w] =
                           <<[what |-> 0, failed |-> got.failed, df |-> <<>>]>>]
    /\ job' = [job EXCEPT ![w] = "product"]
    /\ pc' = [pc EXCEPT ![w] = "loop"]
    /\ UNCHANGED <<arg, ret, results, fitted, pos, file>>

\* one turn of the loop, lines 70-123
ProductStep(w, cfg) ==
    /\ pc[w] = "loop" /\ job[w] = "product"
    /\ todo[w].next <= Len(todo[w].items)
    /\ LET pid == todo[w].items[todo[w].next]
       IN  \E got \in get_and_clean_product_data(pid, cfg.series) :
             /\ fetched' = [fetched EXCEPT ![w] =
                   Append(@, [what |-> pid, failed |-> got.failed, df |-> got.df])]
             /\ IF got.df = <<>>
                THEN \* `if df.empty: continue`
                     /\ todo' = [todo EXCEPT ![w].next = @ + 1]
                     /\ UNCHANGED <<pc, results, fitted>>
                ELSE LET df             == got.df
                         history        == [i \in 1..Len(df) |-> Point(df[i].date, df[i].value)]
                         df_prod        == prepare_product_df(df)
                         history_values == [i \in 1..Len(df) |-> df[i].value]
                     IN  \E r \in predict_product_sales(df_prod, WEEKS, UMBRAL_DEFAULT,
                                                        cfg.model, cfg.rng) :
                           /\ fitted' = [fitted EXCEPT ![w] =
                                 IF r.path \in {"fit", "unstable", "model"}
                                 THEN Append(@, [entity |-> pid, vals |-> Originals(df_prod),
                                                 outcome |-> IF r.path = "fit" THEN "raised"
                                                             ELSE "guarded"])
                                 ELSE @]
                           /\ IF r.status = "error"
                              THEN /\ pc' = [pc EXCEPT ![w] = "raised"]
                                   /\ UNCHANGED <<todo, results>>
                              ELSE \E inestable \in es_forecast_inestable(
                                          history_values, r.yhat, UMBRAL_DEFAULT) :
                                     LET avg3 == RoundHalfEven(
                                                   SeqSum(LastK(history_values, TRAILING)),
                                                   Len(LastK(history_values, TRAILING)))
                                         forecasting ==
                                           [i \in 1..Len(r.ds) |->
                                              Point(r.ds[i],
                                                    IF inestable THEN avg3 ELSE r.yhat[i])]
                                     IN  /\ results' = [results EXCEPT ![w] = AppendResult(@,
                                               [entity |-> pid, type |-> "product",
                                                history |-> history,
                                                forecasting |-> forecasting,
                                                weeks |-> WEEKS])]
                                         /\ todo' = [todo EXCEPT ![w].next = @ + 1]
                                         /\ pc' = pc
    /\ UNCHANGED <<arg, ret, job, pos, file>>

\* lines 56-61 and 125-130: the loop is over; makedirs, then open(path, "w")
OpenFile(w) ==
    /\ pc[w] = "loop"
    /\ todo[w].next > Len(todo[w].items)
    /\ file' = [file EXCEPT ![job[w]] = [exists |-> TRUE, cells |-> <<>>]]
    /\ pos' = [pos EXCEPT ![w] = 0]
    /\ pc' = [pc EXCEPT ![w] = "dump"]
    /\ UNCHANGED <<arg, ret, job, todo, results, fetched, fitted>>

\* lines 62 and 131: json.dump, one more record reaches the file
DumpChunk(w) ==
    /\ pc[w] = "dump"
    /\ pos[w] < Len(results[w])
    /\ file' = [file EXCEPT ![job[w]].cells =
                   WriteAt(@, pos[w] + 1, RecCell(results[w][pos[w] + 1]))]
    /\ pos' = [pos EXCEPT ![w] = @ + 1]
    /\ UNCHANGED <<arg, ret, pc, job, todo, results, fetched, fitted>>

\* lines 61-62 and 130-131: the closing bracket, and the with-block closes the file
CloseFile(w) ==
    /\ pc[w] = "dump"
    /\ pos[w] = Len(results[w])
    /\ file' = [file EXCEPT ![job[w]].cells = WriteAt(@, pos[w] + 1, EndCell)]
    /\ pos' = [pos EXCEPT ![w] = @ + 1]
    /\ pc' = [pc EXCEPT ![w] = "done"]
    /\ UNCHANGED <<arg, ret, job, todo, results, fetched, fitted>>

InitScript(runs) ==
    /\ arg = <<>> /\ ret = <<>>
    /\ pc = [w \in runs |-> "idle"]
    /\ job = [w \in runs |-> "none"]
    /\ todo = [w \in runs |-> [df |-> <<>>, items |-> <<>>, next |-> 1]]
    /\ results = [w \in runs |-> <<>>]
    /\ fetched = [w \in runs |-> <<>>]
    /\ fitted = [w \in runs |-> <<>>]
    /\ pos = [w \in runs |-> 0]
    /\ \E present \in SUBSET EntityTypes :
         file = [t \in EntityTypes |-> IF t \in present THEN OldSnapshot(t) ELSE Missing]

(***************************************************************************)
(* What a run of the script can meet upstream.                             *)
(***************************************************************************)
ScriptLast == FirstDay + 1       \* the series of the batches end on a Monday

\* A table of n weekly rows: c1 sells MaxVal every week, c2 only in the last one.
CategoryTable(n) ==
    [i \in 1..n |->
        [date |-> WeeklyDates(n, ScriptLast)[i],
         cats |-> [c \in {"c1", "c2"} |->
                     IF c = "c1" \/ i = n THEN MaxVal ELSE 0]]]

\* The lists of distinct product ids 1..MaxProducts.
ProductLists ==
    { l \in SeqsOf(1..MaxProducts, 0, MaxProducts) :
        \A i, j \in 1..Len(l) : i # j => l[i] # l[j] }

ConstantSeqs(S, n) == { Replicate(v, n) : v \in S }

GenCfg ==
    [tables |-> { CategoryTable(n) : n \in {1, TRAILING, MIN_NON_ZERO} },
     lists  |-> ProductLists,
     series |-> { ProductDf(vals, ScriptLast) :
                    vals \in { <<>>, <<0, 0, MaxVal>>, Replicate(MaxVal, MIN_NON_ZERO) } },
     model  |-> [fails |-> TRUE, yhats |-> ConstantSeqs(FcValues, WEEKS)],
     rng    |-> ConstantSeqs(NoiseFactors, WEEKS)]

ConcCfg ==
    [tables |-> { CategoryTable(TRAILING) },
     lists  |-> { <<1>> },
     series |-> { ProductDf(vals, ScriptLast) : vals \in { <<>>, <<0, 0, MaxVal>> } },
     model  |-> [fails |-> TRUE, yhats |-> { Replicate(MaxVal, WEEKS) }],
     rng    |-> { Replicate(1000, WEEKS) }]

(***************************************************************************)
(* SpecGen: one run of one batch.  SpecConc: two runs started at any time, *)
(* as when the weekly job and an on-demand regeneration meet.              *)
(***************************************************************************)
InitGen == InitScript({1})

NextGen ==
    \E w \in {1} :
        \/ StartCategory(w, GenCfg)
        \/ CategoryStep(w, GenCfg)
        \/ StartProduct(w, GenCfg)
        \/ ProductStep(w, GenCfg)
        \/ OpenFile(w)
        \/ DumpChunk(w)
        \/ CloseFile(w)

SpecGen == InitGen /\ [][NextGen]_vars

InitConc == InitScript({1, 2})

NextConc ==
    \E w \in {1, 2} :
        \/ StartCategory(w, ConcCfg)
        \/ CategoryStep(w, ConcCfg)
        \/ StartProduct(w, ConcCfg)
        \/ ProductStep(w, ConcCfg)
        \/ OpenFile(w)
        \/ DumpChunk(w)
        \/ CloseFile(w)

SpecConc == InitConc /\ [][NextConc]_vars

Runs == DOMAIN pc

\* C4: during any regeneration the statistical model is never fitted on a series
\* with fewer than 6 values > 0, and no model forecast goes on to the snapshot
\* without having passed the instability check.
C4_EngineForEveryEntity ==
    \A w \in Runs : \A i \in 1..Len(fitted[w]) :
        /\ NonZeroCount(fitted[w][i].vals) >= 6
        /\ fitted[w][i].outcome # "unguarded"

\* C4 for the product batch alone.
C4_ProductsOnly ==
    \A w \in Runs : job[w] = "product" =>
        \A i \in 1..Len(fitted[w]) :
            /\ NonZeroCount(fitted[w][i].vals) >= 6
            /\ fitted[w][i].outcome # "unguarded"

\* C5: a model failure on one entity is caught at the per-entity boundary, the
\* loop goes on and the snapshot is written: no run is ended by the failure.
C5_FailureIsCaught ==
    \A w \in Runs : pc[w] # "raised"

\* C6: a snapshot file is replaced atomically: a reader finds the complete old
\* snapshot or the complete new one, so no step takes a file that holds a
\* complete snapshot to an empty or partial one.
C6_AtomicReplace ==
    [][\A t \in EntityTypes : IsSnapshot(file[t]) => IsSnapshot(file'[t])]_vars

\* C7: the generate-and-write sections of two regenerations of the same entity
\* type never overlap.
InSection(w) == pc[w] \in {"loop", "dump"}

C7_Serialized ==
    \A w1, w2 \in Runs :
        (w1 # w2 /\ job[w1] = job[w2]) => ~(InSection(w1) /\ InSection(w2))

\* C8: a regeneration that failed (the upstream fetch failed, or the model
\* raised) before writing leaves a valid snapshot file as it was.
Failed(w) ==
    /\ job[w] # "none"
    /\ fetched[w][1].failed \/ pc[w] = "raised"

C8_FailedRunKeepsFile ==
    [][\A w \in Runs :
          (Failed(w) /\ IsSnapshot(file[job[w]])) => file'[job[w]] = file[job[w]]]_vars

\* C8 for the model error alone: a run the model ended never touches the file.
C8_RaisedRunKeepsFile ==
    [][\A w \in Runs :
          (pc[w] = "raised") => file'[job[w]] = file[job[w]]]_vars

\* C10: the snapshot generate_product_forecasts writes holds exactly the listed
\* products whose fetched history is non-empty, each once, in the order of the
\* list, and no record with an empty history.
KeptProducts(w) ==
    LET items == todo[w].items
        idx   == SelectSeq([i \in 1..Len(items) |-> i],
                           LAMBDA i : fetched[w][i + 1].df # <<>>)
    IN  [k \in 1..Len(idx) |-> items[idx[k]]]

FactorGrid ==
    { 1000 + (NOISE_PCT * k) \div FactorSteps : k \in (0 - FactorSteps)..FactorSteps }

InitNoise ==
    /\ \/ \E array \in SeqsOf(0..NoiseVal, 0, NoiseLen) :
            \E factors \in SeqsOf(FactorGrid, Len(array), Len(array)) :
               arg = [fn |-> "add_noise", array |-> array, factors |-> factors]
       \/ \E fn \in {"predict_category_sales", "predict_product_sales"},
             vals \in SeqsOf({0, MaxVal}, 0, MaxLen),
             weeks \in 1..MaxWeeks :
               arg = [fn |-> fn, vals |-> vals, last |-> FirstDay, weeks |-> weeks,
                      umbral |-> UMBRAL_DEFAULT]
    /\ ret = <<>>
    /\ NoScript

CallAddNoise ==
    /\ ret = <<>>
    /\ arg.fn = "add_noise"
    /\ ret' = <<add_noise(arg.array, arg.factors)>>
    /\ UNCHANGED <<arg, scriptVars>>

NextNoise == CallAddNoise \/ CallPredictCategorySales \/ CallPredictProductSales

SpecNoise == InitNoise /\ [][NextNoise]_vars

\* out is the rounding to a nearest integer of some real within +-pct of base:
\* out - 1/2 <= (1 + pct) * base and out + 1/2 >= (1 - pct) * base.
WithinPct(out, base) ==
    /\ 1000 * out - 500 <= (1000 + NOISE_PCT) * base
    /\ 1000 * out + 500 >= (1000 - NOISE_PCT) * base

\* C11: every value add_noise produces is a non-negative integer within +-pct of
\* its input (up to rounding to the nearest integer), for every non-negative
\* integer input and every factor in [1 - pct, 1 + pct]; an input of 0 yields 0;
\* and every forecast value the two predictors return is a non-negative integer.
C11_NoiseWithinPct ==
    /\ (ret # <<>> /\ arg.fn = "add_noise") =>
          /\ Len(ret[1]) = Len(arg.array)
          /\ \A i \in 1..Len(arg.array) :
                 /\ ret[1][i] \in Nat
                 /\ WithinPct(ret[1][i], arg.array[i])
                 /\ arg.array[i] = 0 => ret[1][i] = 0
    /\ (ret # <<>> /\ arg.fn # "add_noise" /\ ret[1].status = "ok") =>
          \A i \in 1..Len(ret[1].yhat) : ret[1].yhat[i] \in Nat

\* add_noise has returned on an array holding a 0 and a value the noise moved.
C11_Witness ==
    /\ ret # <<>> /\ arg.fn = "add_noise"
    /\ \E i, j \in 1..Len(arg.array) :
          /\ arg.array[i] = 0
          /\ arg.factors[i] # 1000
          /\ ret[1][j] > arg.array[j]

(***************************************************************************)
(* SpecRecord: one run of the product batch on one product, whose history  *)
(* is any series of poor weeks (0 or 1 sold) and good weeks (RecVal sold), *)
(* with a model that may fail or forecast a flat 0, RecVal, 1.5 * RecVal   *)
(* or 4 * RecVal, and every draw of the three noise factors.               *)
(***************************************************************************)
RecVals == {0, 1, RecVal}

RecCfg ==
    [tables |-> {},
     lists  |-> { <<1>> },
     series |-> { ProductDf(vals, ScriptLast) : vals \in SeqsOf(RecVals, 0, MaxLen) },
     model  |-> [fails |-> TRUE,
                 yhats |-> ConstantSeqs({0, RecVal, (3 * RecVal) \div 2, 4 * RecVal},
                                        WEEKS)],
     rng    |-> SeqsOf(NoiseFactors, WEEKS, WEEKS)]

InitRecord == InitScript({1})

NextRecord ==
    \E w \in {1} :
        \/ StartProduct(w, RecCfg)
        \/ ProductStep(w, RecCfg)
        \/ OpenFile(w)
        \/ DumpChunk(w)
        \/ CloseFile(w)

SpecRecord == InitRecord /\ [][NextRecord]_vars

\* The records a reader of the product file finds, and the values of a list of points.
WrittenProducts ==
    LET cells == file["product"].cells
    IN  { cells[i].body[1] : i \in { j \in 1..Len(cells) : cells[j].kind = "rec" } }

ValuesOf(points) == [i \in 1..Len(points) |-> points[i].value]

\* mean(fore) <= 1.5 * mean(last 3 of hist), both sides times 3 * 10 * Len(fore)
MeanWithinDefault(fore, hist) ==
    SeqSum(fore) * TRAILING * 10
        <= SeqSum(LastK(hist, TRAILING)) * UMBRAL_DEFAULT * Len(fore)

\* C12: in every product record generate_product_forecasts writes, if the history
\* has at least 3 values, all non-negative, with a trailing-3 mean > 0, the mean
\* of the forecasting values does not exceed 1.5 times the mean of the last 3
\* history values, whichever path produced the forecast.
C12_WrittenForecastBounded ==
    \A r \in WrittenProducts :
        LET hist == ValuesOf(r.history)
            fore == ValuesOf(r.forecasting)
        IN  (/\ Len(hist) >= 3
             /\ \A i \in 1..Len(hist) : hist[i] >= 0
             /\ SeqSum(LastK(hist, 3)) > 0)
            => /\ Len(fore) = WEEKS
               /\ MeanWithinDefault(fore, hist)

\* The run has written a record of a product with six good weeks whose forecast
\* carries noise and sits exactly at 1.5 times the trailing mean.
C12_Witness ==
    \E w \in Runs :
        /\ job[w] = "product" /\ pc[w] = "done"
        /\ \E r \in WrittenProducts :
              /\ ValuesOf(r.history) = Replicate(RecVal, MIN_NON_ZERO)
              /\ SeqSum(ValuesOf(r.forecasting)) * 2 = 3 * RecVal * WEEKS
              /\ \E i \in 1..WEEKS : r.forecasting[i].value > (3 * RecVal) \div 2

====
